---- MODULE Spec2Model ----
(***************************************************************************)
(* State-machine model of unitree_sdk2py.g1.audio.AudioClient: the raw    *)
(* microphone multicast listener (StartRawMicListener, StopRawMicListener, *)
(* _mic_listener_loop), the ASR subscription (StartAsrListener,            *)
(* StopAsrListener, _internal_handler), the control operations (TtsMaker,  *)
(* GetVolume, SetVolume, PlayStream, PlayStop, LedControl) and the address *)
(* resolver (_get_local_ip_for_multicast); and of main of                  *)
(* g1_audio_long_play_example, which streams a wav file in paced chunks.   *)
(* Every Python statement that reads or writes a field of the client is    *)
(* one atomic step, so that threads interleave between statements as they  *)
(* do under the interpreter lock.                                          *)
(***************************************************************************)
EXTENDS Integers, Sequences, FiniteSets, TLC

\* ------------------------------------------------------------- bounds
\* Application threads that exist; Spec lets only the first one call.
NumCallers == 2
\* Thread objects (and stop events) one behaviour may create.
MaxThreads == 2
\* Datagrams the multicast socket surfaces in one behaviour.
MaxDatagrams == 2
\* ChannelSubscriber objects one behaviour may create.
MaxSubs == 2
\* The largest status code a transport call answers with.
MaxStatus == 2
\* Control operations one behaviour may call.
MaxCalls == 2
\* The longest of the short buffers main streams, in bytes.
MaxPcmLen == 66
\* A transport call that takes less than a 1 ms chunk, and one that takes more.
LatencyShort == 8
LatencyLong == 40
\* Ticks a sleep may last longer than asked.
MaxOversleep == 1
\* len(pcm_bytes) of 3.2 s of 16 kHz 16-bit mono audio.
LongPcmLen == 102400
\* Addresses a name lookup lists at most.
MaxAddrs == 2
\* The latest time, in ticks after the earliest, at which main is started.
MaxStartTime == 64

\* ------------------------------------------------------------- values
\* Python's None, for the four lifecycle fields and the worker's local sock.
None == 0

Callers == 1..NumCallers

\* What an operation returns beside its status code when it returns None there.
NoPayload == [present |-> FALSE, val |-> [py |-> "none", items |-> {}]]

\* _get_local_ip_for_multicast has not returned; it returned ip, where the empty
\* address stands for None.
NotReturned == [returned |-> FALSE, ip |-> <<>>]

Returned(ip) == [returned |-> TRUE, ip |-> ip]

\* Payloads recvfrom can return as the n-th datagram of a behaviour: a zero-length
\* datagram, or one sample that no other datagram carries.
Payloads(n) == {<<>>, <<n>>}

VARIABLES
    scenario,                 \* what this behaviour follows, see Init
    mic_socket,               \* self.__mic_socket: None or a socket id
    mic_listener_thread,      \* self.__mic_listener_thread: None or a thread id
    mic_listener_stop_event,  \* self.__mic_listener_stop_event: None or an event id
    asr_subscriber,           \* self.__asr_subscriber: None or a subscriber id
    events,                   \* threading.Event objects: events[e] is the flag
    sockets,                  \* UDP sockets created: "open" or "closed"
    threads,                  \* threading.Thread objects and their worker's position
    subs,                     \* ChannelSubscriber objects
    asr_last,                 \* the last ASR sample delivered and what the callback did
    pc,                       \* each caller's position inside the API call it is in
    ret,                      \* how each caller's last API call ended
    tts_index,                \* self.tts_index
    rpc,                      \* the transport calls made (_Call, _CallData) with their answers
    call_ret,                 \* what the last control operation returned to its caller
    pcm_len,                  \* main: len(pcm_bytes)
    chunk_ms,                 \* main: chunk_ms
    chunk_bytes,              \* main: chunk_bytes
    stream_id,                \* main: start_ts, the number stream_id spells
    num_chunks,               \* main: num_chunks
    start_wall,               \* main: start_wall
    idx,                      \* main: idx
    clock,                    \* what time.time() returns now
    main_pc,                  \* main's position
    exit_status,              \* the exit status of the process main ran in
    res_pc,                   \* _get_local_ip_for_multicast's position
    net,                      \* what the host's network answers to each strategy
    attempts,                 \* the strategies tried, in order
    probes,                   \* the sockets strategies 3 and 4 made: "open" or "closed"
    resolved,                 \* what _get_local_ip_for_multicast returned
    waited                    \* seconds each blocking call in progress has waited so far

fields == <<mic_socket, mic_listener_thread, mic_listener_stop_event>>
micObjs == <<events, sockets, threads>>
asrVars == <<asr_subscriber, subs, asr_last>>
ctlVars == <<tts_index, rpc, call_ret>>
playerVars == <<pcm_len, chunk_ms, chunk_bytes, stream_id, num_chunks, start_wall, idx,
                clock, main_pc, exit_status>>
resVars == <<res_pc, net, attempts, probes, resolved>>
\* The control operations, the long-play example and the address resolver: the
\* listeners' actions leave them alone.
appVars == <<ctlVars, playerVars, resVars, waited>>
vars == <<scenario, mic_socket, mic_listener_thread, mic_listener_stop_event,
          asr_subscriber, events, sockets, threads, subs, asr_last, pc, ret, appVars>>

\* The client as AudioClient.__init__ leaves it, with no listener call made yet.
Constructed ==
    /\ mic_socket = None
    /\ mic_listener_thread = None
    /\ mic_listener_stop_event = None
    /\ asr_subscriber = None
    /\ events = <<>>
    /\ sockets = <<>>
    /\ threads = <<>>
    /\ subs = <<>>
    /\ asr_last = [sub |-> None, text |-> <<>>, calls |-> <<>>, escaped |-> FALSE]
    /\ pc = [c \in Callers |-> "idle"]
    /\ ret = [c \in Callers |-> "none"]
    /\ tts_index = 0
    /\ rpc = <<>>
    /\ call_ret = [op |-> "none", code |-> 0, payload |-> NoPayload, raised |-> FALSE]

\* main has not been entered.
MainNotRun ==
    /\ pcm_len = 0 /\ chunk_ms = 0 /\ chunk_bytes = 0 /\ stream_id = 0
    /\ num_chunks = 0 /\ start_wall = 0 /\ idx = 0 /\ clock = 0
    /\ main_pc = "off" /\ exit_status = 0

\* _get_local_ip_for_multicast has not been entered.
ResolverNotRun ==
    /\ res_pc = "off" /\ net = <<>> /\ attempts = <<>> /\ probes = <<>>
    /\ resolved = NotReturned

\* No recvfrom and no join is in progress.
NothingWaited == waited = [recv |-> [t \in 1..MaxThreads |-> 0], join |-> 0]

\* AudioClient.__init__: every lifecycle field is None, nothing exists yet.
\* The raw-mic listener and the ASR listener share no field of the client, and
\* the listener's control flow reads of a datagram only whether it is empty, so
\* a behaviour follows one of three things:
\*   "lifecycle"  any sequence of StartRawMicListener and StopRawMicListener
\*                calls and the workers they leave behind;
\*   "traffic"    one listener session, with the datagrams it receives and the
\*                handler calls it makes written down (rx, hx);
\*   "asr"        any sequence of StartAsrListener and StopAsrListener calls
\*                and the samples delivered.
Init ==
    /\ scenario \in {"lifecycle", "traffic", "asr"}
    /\ Constructed /\ MainNotRun /\ ResolverNotRun /\ NothingWaited

\* A caller returns from its API call. how: "started" or "stopped" (the call did
\* its work), "start_noop" or "stop_noop" (the guard returned at once), "error"
\* (an exception left the call).
Return(c, how) ==
    /\ pc' = [pc EXCEPT ![c] = "idle"]
    /\ ret' = [ret EXCEPT ![c] = how]

Goto(c, where) ==
    /\ pc' = [pc EXCEPT ![c] = where]
    /\ UNCHANGED ret

\* Callers that are inside StartRawMicListener.
InStartRaw == {c \in Callers : pc[c] \in {"s_check", "s_event", "s_thread", "s_start"}}

\* ------------------------------------------------- StartRawMicListener
\* A caller enters StartRawMicListener(handler).
StartRaw_Call(c) ==
    /\ scenario \in {"lifecycle", "traffic"}
    /\ scenario = "traffic" => Len(threads) = 0
    /\ pc[c] = "idle"
    /\ Len(threads) + Cardinality(InStartRaw) < MaxThreads
    /\ Goto(c, "s_check")
    /\ UNCHANGED <<scenario, appVars, fields, micObjs, asrVars>>

\* A StartRawMicListener without its guard.
StartRaw_NoGuard == TRUE

\* The guard of StartRawMicListener: the call goes on iff the thread field is None.
StartRaw_Proceeds == mic_listener_thread = None

\* if self.__mic_listener_thread is not None: return
StartRaw_Check(c) ==
    /\ pc[c] = "s_check"
    /\ IF StartRaw_Proceeds THEN Goto(c, "s_event") ELSE Return(c, "start_noop")
    /\ UNCHANGED <<scenario, appVars, fields, micObjs, asrVars>>

\* self.__mic_listener_stop_event = threading.Event()
StartRaw_Event(c) ==
    /\ pc[c] = "s_event"
    /\ events' = Append(events, FALSE)
    /\ mic_listener_stop_event' = Len(events) + 1
    /\ Goto(c, "s_thread")
    /\ UNCHANGED <<scenario, appVars, mic_socket, mic_listener_thread, sockets, threads, asrVars>>

\* A Thread object as threading.Thread(...) leaves it: created, not started.
\* rx: the datagrams its recvfrom has returned; hx: its handler(data) calls, each
\* with the place in rx of the datagram it was given.
NewThread ==
    [st |-> "new", pc |-> "setup", sock |-> None, rx |-> <<>>, hx |-> <<>>,
     exit |-> "none"]

\* self.__mic_listener_thread = threading.Thread(target=self._mic_listener_loop, ...)
StartRaw_Thread(c) ==
    /\ pc[c] = "s_thread"
    /\ threads' = Append(threads, NewThread)
    /\ mic_listener_thread' = Len(threads) + 1
    /\ Goto(c, "s_start")
    /\ UNCHANGED <<scenario, appVars, mic_socket, mic_listener_stop_event, events, sockets, asrVars>>

\* self.__mic_listener_thread.start(): the field is read again; None has no
\* start(), and a Thread can be started only once (RuntimeError).
StartRaw_Start(c) ==
    /\ pc[c] = "s_start"
    /\ IF mic_listener_thread # None /\ threads[mic_listener_thread].st = "new"
         THEN /\ threads' = [threads EXCEPT ![mic_listener_thread].st = "running"]
              /\ Return(c, "started")
         ELSE /\ UNCHANGED threads
              /\ Return(c, "error")
    /\ UNCHANGED <<scenario, appVars, fields, events, sockets, asrVars>>

\* -------------------------------------------------- StopRawMicListener
\* A caller enters StopRawMicListener().
StopRaw_Call(c) ==
    /\ scenario \in {"lifecycle", "traffic"}
    /\ pc[c] = "idle"
    /\ Goto(c, "p_check")
    /\ UNCHANGED <<scenario, appVars, fields, micObjs, asrVars>>

\* A StopRawMicListener without its guard.
StopRaw_NoGuard == FALSE

\* The guard of StopRawMicListener: the call returns at once iff the thread field is None.
StopRaw_Returns == mic_listener_thread = None

\* if self.__mic_listener_thread is None: return
StopRaw_Check(c) ==
    /\ pc[c] = "p_check"
    /\ IF StopRaw_Returns THEN Return(c, "stop_noop") ELSE Goto(c, "p_set")
    /\ UNCHANGED <<scenario, appVars, fields, micObjs, asrVars>>

\* if self.__mic_listener_stop_event is not None: self.__mic_listener_stop_event.set()
StopRaw_Set(c) ==
    /\ pc[c] = "p_set"
    /\ events' = IF mic_listener_stop_event # None
                   THEN [events EXCEPT ![mic_listener_stop_event] = TRUE]
                   ELSE events
    /\ Goto(c, "p_close")
    /\ UNCHANGED <<scenario, appVars, fields, sockets, threads, asrVars>>

\* if self.__mic_socket is not None: try: self.__mic_socket.close() except: pass
StopRaw_Close(c) ==
    /\ pc[c] = "p_close"
    /\ sockets' = IF mic_socket # None
                    THEN [sockets EXCEPT ![mic_socket] = "closed"]
                    ELSE sockets
    /\ Goto(c, "p_join")
    /\ UNCHANGED <<scenario, appVars, fields, events, threads, asrVars>>

\* if self.__mic_listener_thread is not None: self.__mic_listener_thread.join(timeout=5.0)
\* join returns when the worker has exited or when the 5 seconds are over, whichever
\* is first; joining a Thread that was never started raises RuntimeError.
StopRaw_Join(c) ==
    /\ pc[c] = "p_join"
    /\ IF mic_listener_thread # None /\ threads[mic_listener_thread].st = "new"
         THEN Return(c, "error")
         ELSE Goto(c, "p_reset_socket")
    /\ UNCHANGED <<scenario, appVars, fields, micObjs, asrVars>>

\* self.__mic_socket = None
StopRaw_ResetSocket(c) ==
    /\ pc[c] = "p_reset_socket"
    /\ mic_socket' = None
    /\ Goto(c, "p_reset_thread")
    /\ UNCHANGED <<scenario, appVars, mic_listener_thread, mic_listener_stop_event, micObjs, asrVars>>

\* self.__mic_listener_thread = None
StopRaw_ResetThread(c) ==
    /\ pc[c] = "p_reset_thread"
    /\ mic_listener_thread' = None
    /\ Goto(c, "p_reset_event")
    /\ UNCHANGED <<scenario, appVars, mic_socket, mic_listener_stop_event, micObjs, asrVars>>

\* self.__mic_listener_stop_event = None, and the call returns
StopRaw_ResetEvent(c) ==
    /\ pc[c] = "p_reset_event"
    /\ mic_listener_stop_event' = None
    /\ Return(c, "stopped")
    /\ UNCHANGED <<scenario, appVars, mic_socket, mic_listener_thread, micObjs, asrVars>>

\* --------------------------------------------------- _mic_listener_loop
Running(t) == t \in 1..Len(threads) /\ threads[t].st = "running"

\* The worker returns from _mic_listener_loop; why is kept as the words it printed:
\* "setup" (Mic listener setup error), "unexpected" (Unexpected error in mic
\* listener), "sockerr" (Socket error in mic listener), or nothing printed:
\* "silent" (socket error with the stop event set), "stopped" (the while test).
Exit(t, why) ==
    threads' = [threads EXCEPT ![t].st = "done", ![t].pc = "done", ![t].exit = why]

\* How the setup of the worker can end: no local address (RuntimeError before any
\* socket exists), socket.socket() failing, or setsockopt(SO_REUSEADDR), bind or
\* the multicast join failing with the socket already created; or all of it done.
SetupOutcomes == {"no_ip", "socket", "reuseaddr", "bind", "join", "ok"}

\* Whether the setup got as far as creating the socket.
SocketMade(outcome) == outcome \notin {"no_ip", "socket"}

\* local_ip = self._get_local_ip_for_multicast() ... sock.setsockopt(IP_ADD_MEMBERSHIP):
\* the steps before the socket is stored touch nothing another thread reads.  Each
\* is tried once; a failure is raised as RuntimeError and printed as a setup error.
Mic_Setup(t) ==
    /\ Running(t) /\ threads[t].pc = "setup"
    /\ \E outcome \in SetupOutcomes :
         /\ sockets' = IF SocketMade(outcome) THEN Append(sockets, "open") ELSE sockets
         /\ IF outcome = "ok"
              THEN threads' = [threads EXCEPT ![t].pc = "store",
                                              ![t].sock = Len(sockets) + 1]
              ELSE threads' = [threads EXCEPT ![t].st = "done", ![t].pc = "done",
                                   ![t].exit = "setup",
                                   ![t].sock = IF SocketMade(outcome)
                                                 THEN Len(sockets) + 1 ELSE None]
    /\ UNCHANGED <<scenario, appVars, fields, events, asrVars, pc, ret>>

\* self.__mic_socket = sock
Mic_Store(t) ==
    /\ Running(t) /\ threads[t].pc = "store"
    /\ mic_socket' = threads[t].sock
    /\ threads' = [threads EXCEPT ![t].pc = "loop"]
    /\ UNCHANGED <<scenario, appVars, mic_listener_thread, mic_listener_stop_event, events,
                   sockets, asrVars, pc, ret>>

\* while not self.__mic_listener_stop_event.is_set(): the field is read on every
\* test; None has no is_set(), and the AttributeError reaches "except Exception".
Mic_LoopTest(t) ==
    /\ Running(t) /\ threads[t].pc = "loop"
    /\ IF mic_listener_stop_event = None THEN Exit(t, "unexpected")
       ELSE IF events[mic_listener_stop_event] THEN Exit(t, "stopped")
       ELSE threads' = [threads EXCEPT ![t].pc = "recv"]
    /\ UNCHANGED <<scenario, appVars, fields, events, sockets, asrVars, pc, ret>>

\* Whether this behaviour writes down the datagrams and the handler calls.
Traced == scenario = "traffic"

\* Datagrams the workers 1..n together have written down.
RECURSIVE ReceivedUpTo(_)
ReceivedUpTo(n) == IF n = 0 THEN 0 ELSE Len(threads[n].rx) + ReceivedUpTo(n - 1)

\* A worker that hands no datagram to the handler.
Mic_DropsDatagram(data) == "loop"

\* What the worker does with a datagram recvfrom returned: "if data:" lets
\* only a non-empty one through to the handler.
Mic_AfterRecv(data) == IF Len(data) > 0 THEN "handler" ELSE "loop"

\* sock.settimeout(1.0); data, addr = sock.recvfrom(4096): a datagram, a
\* socket.timeout (continue), or OSError; a closed socket always raises OSError.
Mic_Recv(t) ==
    /\ Running(t) /\ threads[t].pc = "recv"
    /\ \/ /\ sockets[threads[t].sock] = "open"
          /\ Traced => ReceivedUpTo(Len(threads)) < MaxDatagrams
          /\ \E data \in Payloads(ReceivedUpTo(Len(threads)) + 1) :
               threads' = [threads EXCEPT ![t].pc = Mic_AfterRecv(data),
                                ![t].rx = IF Traced THEN Append(@, data) ELSE @]
       \/ /\ sockets[threads[t].sock] = "open"
          /\ threads' = [threads EXCEPT ![t].pc = "loop"]
       \/ threads' = [threads EXCEPT ![t].pc = "sockerr"]
    /\ UNCHANGED <<scenario, appVars, fields, events, sockets, asrVars, pc, ret>>

\* A worker whose loop ends when the handler raises.
Mic_HandlerUncaught(raised) == IF raised THEN "done" ELSE "loop"

\* A worker that goes from the handler straight back into recvfrom, without the
\* loop test.
Mic_RecvAfterHandler(raised) == "recv"

\* Where the worker goes when handler(data) ended: an exception is caught by
\* "except Exception as e" inside the loop and printed, and the loop goes on.
Mic_AfterHandler(raised) == "loop"

\* try: handler(data) except Exception as e: print(...)
Mic_Handler(t) ==
    /\ Running(t) /\ threads[t].pc = "handler"
    /\ \E raised \in BOOLEAN :
         LET call == [data |-> threads[t].rx[Len(threads[t].rx)],
                      at |-> Len(threads[t].rx), raised |-> raised]
             next == Mic_AfterHandler(raised)
         IN  threads' = [threads EXCEPT ![t].hx = IF Traced THEN Append(@, call) ELSE @,
                              ![t].pc = next,
                              ![t].st = IF next = "done" THEN "done" ELSE @,
                              ![t].exit = IF next = "done" THEN "unexpected" ELSE @]
    /\ UNCHANGED <<scenario, appVars, fields, events, sockets, asrVars, pc, ret>>

\* except (socket.error, OSError): if self.__mic_listener_stop_event.is_set(): break
\* else: print(...); break.  The field is read again; None raises AttributeError
\* inside the handler, which reaches the outer "except Exception".
Mic_SockErr(t) ==
    /\ Running(t) /\ threads[t].pc = "sockerr"
    /\ IF mic_listener_stop_event = None THEN Exit(t, "unexpected")
       ELSE IF events[mic_listener_stop_event] THEN Exit(t, "silent")
       ELSE Exit(t, "sockerr")
    /\ UNCHANGED <<scenario, appVars, fields, events, sockets, asrVars, pc, ret>>

\* ------------------------------- StopRawMicListener called by the handler
\* handler(data) runs on the worker, so a handler that calls StopRawMicListener
\* runs lines 210-233 on the worker thread t, between line 289 and the next loop
\* test.  The call returns into the handler, which returns (raised = FALSE), or
\* an exception leaves the call and the handler and is caught at line 290.
HStop_Ends(t, raised) ==
    threads' = [threads EXCEPT ![t].pc = Mic_AfterHandler(raised)]

HStop_Goto(t, where) == threads' = [threads EXCEPT ![t].pc = where]

\* The handler is entered and calls self.StopRawMicListener().
HStop_Call(t) ==
    /\ scenario = "lifecycle"
    /\ Running(t) /\ threads[t].pc = "handler"
    /\ HStop_Goto(t, "h_check")
    /\ UNCHANGED <<scenario, appVars, fields, events, sockets, asrVars, pc, ret>>

\* Lines 212-213.
HStop_Check(t) ==
    /\ Running(t) /\ threads[t].pc = "h_check"
    /\ IF StopRaw_Returns
         THEN HStop_Ends(t, FALSE)
         ELSE HStop_Goto(t, "h_set")
    /\ UNCHANGED <<scenario, appVars, fields, events, sockets, asrVars, pc, ret>>

\* Lines 216-217.
HStop_Set(t) ==
    /\ Running(t) /\ threads[t].pc = "h_set"
    /\ events' = IF mic_listener_stop_event # None
                   THEN [events EXCEPT ![mic_listener_stop_event] = TRUE]
                   ELSE events
    /\ HStop_Goto(t, "h_close")
    /\ UNCHANGED <<scenario, appVars, fields, sockets, asrVars, pc, ret>>

\* Lines 220-224.
HStop_Close(t) ==
    /\ Running(t) /\ threads[t].pc = "h_close"
    /\ sockets' = IF mic_socket # None
                    THEN [sockets EXCEPT ![mic_socket] = "closed"]
                    ELSE sockets
    /\ HStop_Goto(t, "h_join")
    /\ UNCHANGED <<scenario, appVars, fields, events, asrVars, pc, ret>>

\* What Thread.join does when the calling thread is t and the Thread object is
\* joined (None: line 227 skips the join): it raises RuntimeError for the
\* calling thread itself ("cannot join current thread") and for a thread that
\* was never started; otherwise it returns, at the latest after the timeout.
JoinRaises(t, joined) ==
    joined # None /\ (joined = t \/ threads[joined].st = "new")

\* Lines 227-228.
HStop_Join(t) ==
    /\ Running(t) /\ threads[t].pc = "h_join"
    /\ IF JoinRaises(t, mic_listener_thread)
         THEN HStop_Ends(t, TRUE)
         ELSE HStop_Goto(t, "h_reset_socket")
    /\ UNCHANGED <<scenario, appVars, fields, events, sockets, asrVars, pc, ret>>

\* Line 231.
HStop_ResetSocket(t) ==
    /\ Running(t) /\ threads[t].pc = "h_reset_socket"
    /\ mic_socket' = None
    /\ HStop_Goto(t, "h_reset_thread")
    /\ UNCHANGED <<scenario, appVars, mic_listener_thread, mic_listener_stop_event,
                   events, sockets, asrVars, pc, ret>>

\* Line 232.
HStop_ResetThread(t) ==
    /\ Running(t) /\ threads[t].pc = "h_reset_thread"
    /\ mic_listener_thread' = None
    /\ HStop_Goto(t, "h_reset_event")
    /\ UNCHANGED <<scenario, appVars, mic_socket, mic_listener_stop_event,
                   events, sockets, asrVars, pc, ret>>

\* Line 233, and the call returns into the handler.
HStop_ResetEvent(t) ==
    /\ Running(t) /\ threads[t].pc = "h_reset_event"
    /\ mic_listener_stop_event' = None
    /\ HStop_Ends(t, FALSE)
    /\ UNCHANGED <<scenario, appVars, mic_socket, mic_listener_thread,
                   events, sockets, asrVars, pc, ret>>

\* ------------------------------------------------------- ASR listener
\* Message texts the topic may carry, as character sequences: an object, two
\* numbers, and four texts that are not JSON.
Texts == { <<"{", "}">>, <<"1">>, <<"1", "1">>, <<>>, <<"x">>, <<"{">>, <<"{", "1">> }

RECURSIVE DigitsValue(_)
DigitsValue(text) ==
    IF Len(text) = 0 THEN 0
    ELSE 10 * DigitsValue(SubSeq(text, 1, Len(text) - 1)) + 1

\* json.loads on these texts: "{}" is the empty dict, a run of digits is an int,
\* anything else raises (ok = FALSE).
JsonLoads(text) ==
    IF text = <<"{", "}">>
      THEN [ok |-> TRUE, val |-> [py |-> "dict", items |-> {}]]
    ELSE IF Len(text) > 0 /\ \A i \in 1..Len(text) : text[i] = "1"
      THEN [ok |-> TRUE, val |-> [py |-> "int", items |-> {DigitsValue(text)}]]
    ELSE [ok |-> FALSE, val |-> [py |-> "none", items |-> {}]]

\* {"raw": sample.data}
RawPayload(text) == [py |-> "dict", items |-> {<<"raw", text>>}]

\* An _internal_handler that returns on a decode error without calling handler.
InternalHandler_SkipMalformed(text) ==
    IF JsonLoads(text).ok THEN <<JsonLoads(text).val>> ELSE <<>>

\* _internal_handler(sample): the payloads it calls handler with, in order.
\* try: payload = json.loads(sample.data) except Exception: payload = {"raw": ...}
\* and then handler(payload), once.
InternalHandler(text) ==
    <<IF JsonLoads(text).ok THEN JsonLoads(text).val ELSE RawPayload(text)>>

\* handler(payload) stands outside the try: an exception it raises leaves
\* _internal_handler.
HandlerEscapes(raised) == raised

InStartAsr == {c \in Callers : pc[c] \in {"a_check", "a_create", "a_init"}}

\* A caller enters StartAsrListener(handler, queueLen).
StartAsr_Call(c) ==
    /\ scenario = "asr"
    /\ pc[c] = "idle"
    /\ Len(subs) + Cardinality(InStartAsr) < MaxSubs
    /\ Goto(c, "a_check")
    /\ UNCHANGED <<scenario, appVars, fields, micObjs, asrVars>>

\* A StartAsrListener without its guard.
StartAsr_NoGuard == TRUE

\* The guard of StartAsrListener: the call goes on iff no subscriber is stored.
StartAsr_Proceeds == asr_subscriber = None

\* if self.__asr_subscriber is not None: return
StartAsr_Check(c) ==
    /\ pc[c] = "a_check"
    /\ IF StartAsr_Proceeds THEN Goto(c, "a_create") ELSE Return(c, "start_noop")
    /\ UNCHANGED <<scenario, appVars, fields, micObjs, asrVars>>

\* self.__asr_subscriber = ChannelSubscriber(AUDIO_ASR_TOPIC_NAME, String_)
StartAsr_Create(c) ==
    /\ pc[c] = "a_create"
    /\ subs' = Append(subs, [st |-> "created", reader |-> "none"])
    /\ asr_subscriber' = Len(subs) + 1
    /\ Goto(c, "a_init")
    /\ UNCHANGED <<scenario, appVars, fields, micObjs, asr_last>>

\* ChannelSubscriber.Init(handler, queueLen): registers the callback and starts
\* the delivery worker of this subscriber.
Subscriber_Init(sub) ==
    IF sub.st = "created" THEN [st |-> "inited", reader |-> "alive"] ELSE sub

\* ChannelSubscriber.Close(): ends the subscription; nothing is delivered after it.
Subscriber_Close(sub) == [st |-> "closed", reader |-> sub.reader]

\* self.__asr_subscriber.Init(_internal_handler, queueLen): the field is read again.
StartAsr_Init(c) ==
    /\ pc[c] = "a_init"
    /\ IF asr_subscriber # None
         THEN /\ subs' = [subs EXCEPT ![asr_subscriber] = Subscriber_Init(@)]
              /\ Return(c, "started")
         ELSE /\ UNCHANGED subs
              /\ Return(c, "error")
    /\ UNCHANGED <<scenario, appVars, fields, micObjs, asr_subscriber, asr_last>>

\* A caller enters StopAsrListener().
StopAsr_Call(c) ==
    /\ scenario = "asr"
    /\ pc[c] = "idle"
    /\ Goto(c, "q_check")
    /\ UNCHANGED <<scenario, appVars, fields, micObjs, asrVars>>

\* The guard of StopAsrListener: the call does something iff a subscriber is stored.
StopAsr_Proceeds == asr_subscriber # None

\* if self.__asr_subscriber is not None:
StopAsr_Check(c) ==
    /\ pc[c] = "q_check"
    /\ IF StopAsr_Proceeds THEN Goto(c, "q_close") ELSE Return(c, "stop_noop")
    /\ UNCHANGED <<scenario, appVars, fields, micObjs, asrVars>>

\* self.__asr_subscriber.Close(): the field is read again.
StopAsr_Close(c) ==
    /\ pc[c] = "q_close"
    /\ IF asr_subscriber # None
         THEN /\ subs' = [subs EXCEPT ![asr_subscriber] = Subscriber_Close(@)]
              /\ Goto(c, "q_clear")
         ELSE /\ UNCHANGED subs
              /\ Return(c, "error")
    /\ UNCHANGED <<scenario, appVars, fields, micObjs, asr_subscriber, asr_last>>

\* self.__asr_subscriber = None
StopAsr_Clear(c) ==
    /\ pc[c] = "q_clear"
    /\ asr_subscriber' = None
    /\ Return(c, "stopped")
    /\ UNCHANGED <<scenario, appVars, fields, micObjs, subs, asr_last>>

\* The delivery worker of a live subscriber after an exception left the
\* callback: it goes on, or the exception ends it.
Reader_After(escaped, dies) == IF escaped /\ dies THEN "dead" ELSE "alive"

\* The delivery worker of subscriber s hands one sample to _internal_handler.
Asr_Deliver(s) ==
    /\ s \in 1..Len(subs)
    /\ subs[s].st = "inited" /\ subs[s].reader = "alive"
    /\ \E text \in Texts, raised \in BOOLEAN, dies \in BOOLEAN :
         /\ asr_last' = [sub |-> s, text |-> text, calls |-> InternalHandler(text),
                         escaped |-> HandlerEscapes(raised)]
         /\ subs' = [subs EXCEPT ![s].reader = Reader_After(HandlerEscapes(raised), dies)]
    /\ UNCHANGED <<scenario, appVars, fields, micObjs, asr_subscriber, pc, ret>>

\* --------------------------------------------------- control operations
\* g1_audio_api.py: the api ids the operations call.
ROBOT_API_ID_AUDIO_TTS == 1001
ROBOT_API_ID_AUDIO_START_PLAY == 1003
ROBOT_API_ID_AUDIO_STOP_PLAY == 1004
ROBOT_API_ID_AUDIO_GET_VOLUME == 1005
ROBOT_API_ID_AUDIO_SET_VOLUME == 1006
ROBOT_API_ID_AUDIO_SET_RGB_LED == 1010

\* The status codes a transport call answers with: 0 is success.
StatusCodes == 0..MaxStatus

\* No result payload (data is None), and a result payload that is this text.
Absent == [present |-> FALSE, text |-> <<>>]

Present(text) == [present |-> TRUE, text |-> text]

\* What Client._Call and Client._CallData hand back as (code, data): any status
\* code, with no payload or with a JSON document.
Transport_Answers ==
    {[code |-> code, data |-> data] :
        code \in StatusCodes,
        data \in {Absent} \cup {Present(text) : text \in {t \in Texts : JsonLoads(t).ok}}}

\* pcm_bytes[lo:hi], as the positions of the buffer it holds; lo = hi is empty.
Slice(lo, hi) == [lo |-> lo, hi |-> hi]

NoData == Slice(0, 0)

\* self._Call(api_id, parameter) and self._CallData(api_id, parameter, data):
\* one request on the transport, answered lat later.
Client_Call(api_id, parameter, pcm_data, answer, lat) ==
    rpc' = Append(rpc, [api |-> api_id, parameter |-> parameter, pcm |-> pcm_data,
                        code |-> answer.code, data |-> answer.data,
                        at |-> clock, back |-> clock + lat])

\* A decoded document returned beside the code.
Decoded(val) == [present |-> TRUE, val |-> val]

\* The operation returns (code) or (code, payload) to its caller.
Returns(op, code, payload) ==
    call_ret' = [op |-> op, code |-> code, payload |-> payload, raised |-> FALSE]

\* An exception leaves the operation.
Raises(op) ==
    call_ret' = [op |-> op, code |-> 0, payload |-> NoPayload, raised |-> TRUE]

\* A TtsMaker that counts its calls.
Tts_Increment(index) == index + 1

\* self.tts_index += self.tts_index
Tts_NextIndex(index) == index + index

\* TtsMaker(text, speaker_id)
TtsMaker(text, speaker_id, answer) ==
    /\ tts_index' = Tts_NextIndex(tts_index)
    /\ Client_Call(ROBOT_API_ID_AUDIO_TTS,
                   [index |-> tts_index', text |-> text, speaker_id |-> speaker_id],
                   NoData, answer, 0)
    /\ Returns("TtsMaker", answer.code, NoPayload)

\* A GetVolume that decodes whatever payload came, whatever the status.
GetVolume_DecodesAnyStatus(answer) == answer.data.present

\* if code == 0 and data is not None
GetVolume_Decodes(answer) == answer.code = 0 /\ answer.data.present

\* GetVolume(): return code, json.loads(data), or code, None.
GetVolume(answer) ==
    /\ Client_Call(ROBOT_API_ID_AUDIO_GET_VOLUME, <<>>, NoData, answer, 0)
    /\ IF GetVolume_Decodes(answer)
         THEN IF JsonLoads(answer.data.text).ok
                THEN Returns("GetVolume", answer.code,
                             Decoded(JsonLoads(answer.data.text).val))
                ELSE Raises("GetVolume")
         ELSE Returns("GetVolume", answer.code, NoPayload)
    /\ UNCHANGED tts_index

\* SetVolume(volume)
SetVolume(volume, answer) ==
    /\ Client_Call(ROBOT_API_ID_AUDIO_SET_VOLUME, [volume |-> volume], NoData, answer, 0)
    /\ Returns("SetVolume", answer.code, NoPayload)
    /\ UNCHANGED tts_index

\* PlayStream(app_name, stream_id, pcm_data)
PlayStream(app_name, sid, pcm_data, answer, lat) ==
    /\ Client_Call(ROBOT_API_ID_AUDIO_START_PLAY,
                   [app_name |-> app_name, stream_id |-> sid], pcm_data, answer, lat)
    /\ Returns("PlayStream", answer.code, NoPayload)
    /\ UNCHANGED tts_index

\* A PlayStop that sends an empty application name.
PlayStop_Unnamed(app_name, answer, lat) ==
    /\ Client_Call(ROBOT_API_ID_AUDIO_STOP_PLAY, [app_name |-> ""], NoData,
                   answer, lat)
    /\ Returns("PlayStop", answer.code, NoPayload)
    /\ UNCHANGED tts_index

\* PlayStop(app_name)
PlayStop(app_name, answer, lat) ==
    /\ Client_Call(ROBOT_API_ID_AUDIO_STOP_PLAY, [app_name |-> app_name], NoData,
                   answer, lat)
    /\ Returns("PlayStop", answer.code, NoPayload)
    /\ UNCHANGED tts_index

\* LedControl(R, G, B)
LedControl(R, G, B, answer) ==
    /\ Client_Call(ROBOT_API_ID_AUDIO_SET_RGB_LED, [R |-> R, G |-> G, B |-> B], NoData,
                   answer, 0)
    /\ Returns("LedControl", answer.code, NoPayload)
    /\ UNCHANGED tts_index

\* What nothing of a control operation touches.
ControlFrame ==
    UNCHANGED <<scenario, fields, micObjs, asrVars, pc, ret, playerVars, resVars, waited>>

\* The application calls one control operation: it may while fewer than MaxCalls
\* transport calls were made.
MayCall == scenario = "control" /\ Len(rpc) < MaxCalls

Ctl_TtsMaker ==
    /\ MayCall
    /\ \E answer \in Transport_Answers : TtsMaker("hi", 0, answer)
    /\ ControlFrame

Ctl_GetVolume ==
    /\ MayCall
    /\ \E answer \in Transport_Answers : GetVolume(answer)
    /\ ControlFrame

Ctl_SetVolume ==
    /\ MayCall
    /\ \E answer \in Transport_Answers : SetVolume(50, answer)
    /\ ControlFrame

Ctl_PlayStream ==
    /\ MayCall
    /\ \E answer \in Transport_Answers, n \in {0, 2} :
         PlayStream("example", 1, Slice(0, n), answer, 0)
    /\ ControlFrame

Ctl_PlayStop ==
    /\ MayCall
    /\ \E answer \in Transport_Answers : PlayStop("example", answer, 0)
    /\ ControlFrame

Ctl_LedControl ==
    /\ MayCall
    /\ \E answer \in Transport_Answers : LedControl(0, 255, 0, answer)
    /\ ControlFrame

\* ------------------------------------------- g1_audio_long_play_example
\* main, from the chunking parameters (line 88) to PlayStop (line 131).  Time is
\* counted in ticks of one byte of audio: a second is bytes_per_sec ticks, so
\* len(buf) / bytes_per_sec seconds are len(buf) ticks.
sample_rate == 16000

bytes_per_sample == 2

bytes_per_sec == sample_rate * bytes_per_sample

\* chunk_ms milliseconds, in ticks.
Ticks(ms) == (ms * bytes_per_sec) \div 1000

RECURSIVE Pow2(_)
Pow2(n) == IF n = 0 THEN 1 ELSE 2 * Pow2(n - 1)

RECURSIVE Pow2Mod125(_)
Pow2Mod125(n) == IF n = 0 THEN 1 ELSE (2 * Pow2Mod125(n - 1)) % 125

\* The binade of the double ms / 1000.0, for 1 <= ms < 2^20: the k with
\* 2^k <= ms/1000 < 2^(k+1).
Binade(ms) ==
    CHOOSE k \in -10..10 :
        /\ 1000 * Pow2(k + 10) <= ms * 1024
        /\ ms * 1024 < 1000 * Pow2(k + 11)

\* ms / 1000.0 is the double nearest to ms/1000: M * 2^(k-52), with k the binade
\* and M the integer nearest to ms * 2^(52-k) / 1000 = ms * 2^(49-k) / 125.
\* QuotientError is 125 * (ms * 2^(49-k) / 125 - M), the signed remainder of
\* ms * 2^(49-k) by 125: it lies in -62..62 and is positive when the double is
\* below ms/1000.
QuotientError(ms) ==
    LET r == ((ms % 125) * Pow2Mod125(49 - Binade(ms))) % 125
    IN  IF r <= 62 THEN r ELSE r - 125

\* int(bytes_per_sec * (ms / 1000.0)) for ms > 0, bytes_per_sec = 32000 = 2^8 * 125.
\* The exact product is 32*ms - e * 2^(k-44), e the QuotientError; it is rounded
\* to a double and then truncated.  Doubles below 2^(k+15) are 2^(k-38) apart
\* and doubles above it 2^(k-37), while |e| * 2^(k-44) < 2^(k-38): the product
\* rounds to 32*ms unless it lies below 32*ms <= 2^(k+15) by more than half of
\* 2^(k-38), e > 32, and then it rounds to a double below 32*ms, which int()
\* truncates to 32*ms - 1.  (At e = 32 the tie goes to 32*ms, whose significand
\* is even.)  32*ms <= 2^(k+15) is written ms * 2^10 <= 2^(k+20).
TruncatedProduct(ms) ==
    IF ms * 1024 <= Pow2(Binade(ms) + 20) /\ QuotientError(ms) > 32
      THEN 32 * ms - 1
      ELSE 32 * ms

\* chunk_bytes = int(bytes_per_sec * (chunk_ms / 1000.0)); int() truncates
\* towards zero and the arithmetic is symmetric in the sign.
ChunkBytes(ms) ==
    IF ms = 0 THEN 0
    ELSE IF ms > 0 THEN TruncatedProduct(ms)
    ELSE 0 - TruncatedProduct(0 - ms)

Min(a, b) == IF a <= b THEN a ELSE b

\* len(buf) of a slice.
SliceLen(s) == s.hi - s.lo

\* A split whose chunks overlap by one byte.
Buf_Overlapping(i) ==
    Slice(Min(i * (chunk_bytes - 1), pcm_len),
          Min(i * (chunk_bytes - 1) + chunk_bytes, pcm_len))

\* buf = pcm_bytes[offset: offset + chunk_bytes], offset = idx * chunk_bytes: a
\* Python slice ends where the buffer ends.
Buf(i) ==
    Slice(Min(i * chunk_bytes, pcm_len), Min(i * chunk_bytes + chunk_bytes, pcm_len))

\* The chunk_ms arguments main is run with.
ChunkMsValues == {0 - 1, 0, 1, 2, 1000, 1001}

\* The runs of main: <<len(pcm_bytes), chunk_ms>>.  Any short buffer with any
\* chunk_ms, and the long one in chunks of about a second.
MainInputs ==
    ((0..MaxPcmLen) \X ChunkMsValues) \cup ({LongPcmLen} \X {1000, 1001})

\* What time.time() returns when main is entered.
StartTimes == {0, MaxStartTime}

\* How long a transport call takes, in ticks.
Latencies == {0, LatencyShort, LatencyLong}

\* PlayStream and PlayStop drop the data of the answer: the answers with none.
StreamAnswers == {a \in Transport_Answers : ~a.data.present}

\* What nothing of main touches.
MainFrame ==
    UNCHANGED <<scenario, fields, micObjs, asrVars, pc, ret, resVars, waited>>

\* Lines 88-94: chunk_bytes, and sys.exit(-1) if it is not positive.
Main_Prepare ==
    /\ main_pc = "prepare"
    /\ chunk_bytes' = ChunkBytes(chunk_ms)
    /\ IF chunk_bytes' <= 0
         THEN main_pc' = "exited" /\ exit_status' = 0 - 1
         ELSE main_pc' = "begin" /\ UNCHANGED exit_status
    /\ UNCHANGED <<pcm_len, chunk_ms, stream_id, num_chunks, start_wall, idx, clock>>
    /\ UNCHANGED ctlVars
    /\ MainFrame

\* start_ts = int(time.time() * 1000): the time in whole milliseconds.
StartTs(now) == (now * 1000) \div bytes_per_sec

\* Lines 99-106: the stream id, num_chunks and start_wall.
Main_Begin ==
    /\ main_pc = "begin"
    /\ stream_id' = StartTs(clock)
    /\ num_chunks' = (pcm_len + chunk_bytes - 1) \div chunk_bytes
    /\ start_wall' = clock
    /\ idx' = 0
    /\ main_pc' = "loop"
    /\ UNCHANGED <<pcm_len, chunk_ms, chunk_bytes, clock, exit_status>>
    /\ UNCHANGED ctlVars
    /\ MainFrame

\* Lines 108-112: the loop ends when range(num_chunks) is used up or buf is empty.
Main_Loop ==
    /\ main_pc = "loop"
    /\ IF idx < num_chunks /\ SliceLen(Buf(idx)) > 0
         THEN main_pc' = "send"
         ELSE main_pc' = "stop"
    /\ UNCHANGED <<pcm_len, chunk_ms, chunk_bytes, stream_id, num_chunks, start_wall,
                   idx, clock, exit_status>>
    /\ UNCHANGED ctlVars
    /\ MainFrame

\* A main that goes on to the next chunk whatever PlayStream returned.
Main_IgnoresStatus(code) == "pace"

\* A main that returns at once when PlayStream fails.
Main_ReturnsOnFailure(code) == IF code # 0 THEN "done" ELSE "pace"

\* if ret != 0: print(...); break
Main_AfterSend(code) == IF code # 0 THEN "stop" ELSE "pace"

\* Lines 115-121: ret = audio_client.PlayStream("longplay", stream_id, pcm_list).
Main_Send ==
    /\ main_pc = "send"
    /\ \E answer \in StreamAnswers, lat \in Latencies :
         /\ PlayStream("longplay", stream_id, Buf(idx), answer, lat)
         /\ clock' = clock + lat
         /\ main_pc' = Main_AfterSend(answer.code)
    /\ UNCHANGED <<pcm_len, chunk_ms, chunk_bytes, stream_id, num_chunks, start_wall,
                   idx, exit_status>>
    /\ MainFrame

\* chunk_duration = len(buf) / bytes_per_sec
\* next_target = start_wall + (idx + 1) * chunk_duration
NextTarget(i) == start_wall + (i + 1) * SliceLen(Buf(i))

\* A main that sleeps one chunk duration after every chunk, wherever the
\* schedule stands.
SleepTime_Fixed(i) == SliceLen(Buf(i))

\* sleep_time = next_target - time.time()
SleepTime(i) == NextTarget(i) - clock

\* Lines 124-128: time.sleep(sleep_time) if it is positive; the sleep may last up
\* to MaxOversleep ticks longer than asked.  Then the next idx.
Main_Pace ==
    /\ main_pc = "pace"
    /\ IF SleepTime(idx) > 0
         THEN \E late \in 0..MaxOversleep : clock' = clock + SleepTime(idx) + late
         ELSE UNCHANGED clock
    /\ idx' = idx + 1
    /\ main_pc' = "loop"
    /\ UNCHANGED <<pcm_len, chunk_ms, chunk_bytes, stream_id, num_chunks, start_wall,
                   exit_status>>
    /\ UNCHANGED ctlVars
    /\ MainFrame

\* Lines 130-131: audio_client.PlayStop("longplay"); main returns None and the
\* process ends with the status it had.
Main_Stop ==
    /\ main_pc = "stop"
    /\ \E answer \in StreamAnswers, lat \in Latencies :
         /\ PlayStop("longplay", answer, lat)
         /\ clock' = clock + lat
    /\ main_pc' = "done"
    /\ UNCHANGED <<pcm_len, chunk_ms, chunk_bytes, stream_id, num_chunks, start_wall,
                   idx, exit_status>>
    /\ MainFrame

\* ------------------------------------------- _get_local_ip_for_multicast
\* An address is the text of it, cut at the dots: "192.168.123.7" is
\* <<"192", ".", "168", ".", "123", ".", "7">>.
target_subnet == <<"192", ".", "168", ".", "123", ".">>

\* ip.startswith(target_subnet)
StartsWith(ip, prefix) ==
    /\ Len(ip) >= Len(prefix)
    /\ SubSeq(ip, 1, Len(prefix)) = prefix

\* The addresses a host can have: two on the robot's subnet, one on another
\* subnet that begins alike (192.168.12.3), and an IPv6 one.
Addresses ==
    { <<"192", ".", "168", ".", "123", ".", "7">>,
      <<"192", ".", "168", ".", "123", ".", "222">>,
      <<"192", ".", "168", ".", "12", ".", "3">>,
      <<"fe80", ":", ":", "1">> }

\* Lists of at most n addresses.
RECURSIVE AddressLists(_)
AddressLists(n) ==
    IF n = 0 THEN {<<>>}
    ELSE AddressLists(n - 1)
           \cup {Append(l, a) : l \in {m \in AddressLists(n - 1) : Len(m) = n - 1},
                                a \in Addresses}

\* What a name lookup (getaddrinfo, gethostbyname_ex) does: it raises, or it
\* lists addresses.
Lookups ==
    {[raises |-> TRUE, ips |-> <<>>]}
      \cup {[raises |-> FALSE, ips |-> l] : l \in AddressLists(MaxAddrs)}

\* What a connect probe does: socket() raises; or the socket is made and
\* connect or getsockname raises; or getsockname names the local address.
Probes ==
    {[made |-> FALSE, raises |-> TRUE, ip |-> <<>>],
     [made |-> TRUE, raises |-> TRUE, ip |-> <<>>]}
      \cup {[made |-> TRUE, raises |-> FALSE, ip |-> a] : a \in Addresses}

\* The first address of the list on the target subnet, <<>> if there is none:
\* for ip in ...: if ip.startswith(target_subnet): return ip
FirstMatch(ips) ==
    IF \E i \in 1..Len(ips) : StartsWith(ips[i], target_subnet)
      THEN ips[CHOOSE i \in 1..Len(ips) :
                 /\ StartsWith(ips[i], target_subnet)
                 /\ \A j \in 1..(i - 1) : ~StartsWith(ips[j], target_subnet)]
      ELSE <<>>

\* What a lookup strategy finds: except Exception: pass swallows a raise.
LookupFinds(lookup) == IF lookup.raises THEN <<>> ELSE FirstMatch(lookup.ips)

\* What a probe strategy finds: local_ip if it starts with the target subnet.
ProbeFinds(probe) ==
    IF ~probe.raises /\ StartsWith(probe.ip, target_subnet) THEN probe.ip ELSE <<>>

\* A resolver that tries every strategy whatever the ones before found.
Resolve_NeverReturnsEarly(found) == FALSE

\* return ip / return local_ip inside a strategy: it ends the function.
Resolve_ReturnsEarly(found) == found # <<>>

\* What nothing of the resolver touches.
ResolverFrame ==
    UNCHANGED <<scenario, fields, micObjs, asrVars, pc, ret, ctlVars, playerVars, net,
                waited>>

\* Strategy number n has run and found this (<<>>: nothing); the function
\* returns what it found or goes on to where, and probes lists the sockets
\* made so far.
Resolve_Step(n, found, where, made) ==
    /\ attempts' = Append(attempts, n)
    /\ probes' = made
    /\ IF Resolve_ReturnsEarly(found)
         THEN res_pc' = "done" /\ resolved' = Returned(found)
         ELSE IF where = "done"
           THEN res_pc' = "done" /\ resolved' = Returned(<<>>)
           ELSE res_pc' = where /\ UNCHANGED resolved
    /\ ResolverFrame

\* Method 1 (lines 142-149): socket.getaddrinfo(socket.gethostname(), None).
Resolve_Method1 ==
    /\ res_pc = "method1"
    /\ Resolve_Step(1, LookupFinds(net.addrinfo), "method2", probes)

\* Method 2 (lines 152-160): socket.gethostbyname_ex(hostname).
Resolve_Method2 ==
    /\ res_pc = "method2"
    /\ Resolve_Step(2, LookupFinds(net.hostbyname), "method3", probes)

\* The sockets made once a probe is over: the with statement has closed the
\* socket it made, also when the body raised or returned.
AfterProbe(probe) == IF probe.made THEN Append(probes, "closed") ELSE probes

\* Method 3 (lines 163-171): connect to 192.168.123.1 and read getsockname().
Resolve_Method3 ==
    /\ res_pc = "method3"
    /\ Resolve_Step(3, ProbeFinds(net.gateway), "method4", AfterProbe(net.gateway))

\* Method 4 (lines 174-183): the same towards 8.8.8.8; then return None.
Resolve_Method4 ==
    /\ res_pc = "method4"
    /\ Resolve_Step(4, ProbeFinds(net.external), "done", AfterProbe(net.external))

\* ------------------------------------------------------ specifications
Worker ==
    \E t \in 1..MaxThreads :
        \/ Mic_Setup(t) \/ Mic_Store(t) \/ Mic_LoopTest(t) \/ Mic_Recv(t)
        \/ Mic_Handler(t) \/ Mic_SockErr(t)

Deliver == \E s \in 1..MaxSubs : Asr_Deliver(s)

StartRaw(c) ==
    \/ StartRaw_Call(c) \/ StartRaw_Check(c) \/ StartRaw_Event(c)
    \/ StartRaw_Thread(c) \/ StartRaw_Start(c)

StopRaw(c) ==
    \/ StopRaw_Call(c) \/ StopRaw_Check(c) \/ StopRaw_Set(c) \/ StopRaw_Close(c)
    \/ StopRaw_Join(c) \/ StopRaw_ResetSocket(c) \/ StopRaw_ResetThread(c)
    \/ StopRaw_ResetEvent(c)

StartAsr(c) ==
    \/ StartAsr_Call(c) \/ StartAsr_Check(c) \/ StartAsr_Create(c) \/ StartAsr_Init(c)

StopAsr(c) ==
    \/ StopAsr_Call(c) \/ StopAsr_Check(c) \/ StopAsr_Close(c) \/ StopAsr_Clear(c)

\* One application thread drives the client, as the examples do: its calls
\* follow one another, and the workers run beside it.
Next ==
    \/ StartRaw(1) \/ StopRaw(1) \/ StartAsr(1) \/ StopAsr(1)
    \/ Worker \/ Deliver

Spec == Init /\ [][Next]_vars

\* Several application threads call Start on the same client at the same time.
NextConc ==
    \/ \E c \in Callers : StartRaw(c) \/ StartAsr(c)
    \/ Worker \/ Deliver

SpecConc == Init /\ [][NextConc]_vars

\* The application calls control operations on a fresh client, one after another.
InitControl ==
    /\ scenario = "control"
    /\ Constructed /\ MainNotRun /\ ResolverNotRun /\ NothingWaited

NextControl ==
    \/ Ctl_TtsMaker \/ Ctl_GetVolume \/ Ctl_SetVolume
    \/ Ctl_PlayStream \/ Ctl_PlayStop \/ Ctl_LedControl

SpecControl == InitControl /\ [][NextControl]_vars

\* main of g1_audio_long_play_example streams one buffer.
InitPlayer ==
    /\ scenario = "player"
    /\ Constructed /\ ResolverNotRun /\ NothingWaited
    /\ \E input \in MainInputs : pcm_len = input[1] /\ chunk_ms = input[2]
    /\ chunk_bytes = 0 /\ stream_id = 0 /\ num_chunks = 0 /\ start_wall = 0
    /\ idx = 0 /\ clock \in StartTimes /\ exit_status = 0
    /\ main_pc = "prepare"

NextPlayer ==
    \/ Main_Prepare \/ Main_Begin \/ Main_Loop \/ Main_Send \/ Main_Pace \/ Main_Stop

SpecPlayer == InitPlayer /\ [][NextPlayer]_vars

\* _get_local_ip_for_multicast is called once, on a host whose network answers
\* the four strategies in any way.
InitResolver ==
    /\ scenario = "resolver"
    /\ Constructed /\ MainNotRun /\ NothingWaited
    /\ net \in [addrinfo : Lookups, hostbyname : Lookups, gateway : Probes,
                external : Probes]
    /\ res_pc = "method1"
    /\ attempts = <<>> /\ probes = <<>> /\ resolved = NotReturned

NextResolver ==
    \/ Resolve_Method1 \/ Resolve_Method2 \/ Resolve_Method3 \/ Resolve_Method4

SpecResolver == InitResolver /\ [][NextResolver]_vars

\* One application thread starts and stops the mic listener, and every worker
\* that was started keeps being scheduled: a started Python thread with a step to
\* take is eventually given the interpreter.  So is the application thread while
\* it is inside a call (join(timeout=5.0) itself returns after five seconds at the
\* latest); between calls it is under no obligation and may never call again.
InitMic ==
    /\ scenario = "lifecycle"
    /\ Constructed /\ MainNotRun /\ ResolverNotRun /\ NothingWaited

WorkerOf(t) ==
    \/ Mic_Setup(t) \/ Mic_Store(t) \/ Mic_LoopTest(t) \/ Mic_Recv(t)
    \/ Mic_Handler(t) \/ Mic_SockErr(t)

NextMic == StartRaw(1) \/ StopRaw(1) \/ Worker

WorkersScheduled == \A t \in 1..MaxThreads : WF_vars(WorkerOf(t))

\* The steps of caller c inside StartRawMicListener or StopRawMicListener.
InsideCall(c) ==
    \/ StartRaw_Check(c) \/ StartRaw_Event(c) \/ StartRaw_Thread(c) \/ StartRaw_Start(c)
    \/ StopRaw_Check(c) \/ StopRaw_Set(c) \/ StopRaw_Close(c) \/ StopRaw_Join(c)
    \/ StopRaw_ResetSocket(c) \/ StopRaw_ResetThread(c) \/ StopRaw_ResetEvent(c)

CallsReturn == WF_vars(InsideCall(1))

SpecMicFair == InitMic /\ [][NextMic]_vars /\ WorkersScheduled /\ CallsReturn

\* The same calls and workers with the time the two blocking calls take, counted
\* in seconds: sock.settimeout(1.0) bounds a recvfrom, join(timeout=5.0) bounds
\* the wait of Stop.  Resolving the local address and setting up the socket take
\* any time; every other statement, the handler included, takes none (a handler
\* that does not block).
PollInterval == 1

JoinTimeout == 5

\* The worker that Stop's join waits for is still running.
JoinedWorkerRuns ==
    mic_listener_thread # None /\ threads[mic_listener_thread].st = "running"

\* One second passes: possible only while every thread that has a step to take
\* is inside a blocking call that has time left.
Tick ==
    /\ \A t \in 1..Len(threads) :
          Running(t) =>
            /\ threads[t].pc \in {"setup", "recv"}
            /\ threads[t].pc = "recv" => waited.recv[t] < PollInterval
    /\ pc[1] \in {"idle", "p_join"}
    /\ pc[1] = "p_join" => JoinedWorkerRuns /\ waited.join < JoinTimeout
    /\ waited' = [recv |-> [t \in 1..MaxThreads |->
                              IF Running(t) /\ threads[t].pc = "recv"
                                THEN waited.recv[t] + 1 ELSE 0],
                  join |-> IF pc[1] = "p_join" THEN waited.join + 1 ELSE 0]
    /\ UNCHANGED <<scenario, fields, micObjs, asrVars, pc, ret, ctlVars, playerVars,
                   resVars>>

\* A blocking call that has returned has waited nothing: its count starts again.
Rearm ==
    /\ waited' = [recv |-> [t \in 1..MaxThreads |->
                              IF Running(t) /\ threads[t].pc = "recv"
                                THEN waited.recv[t] ELSE 0],
                  join |-> IF pc[1] = "p_join" THEN waited.join ELSE 0]
    /\ waited' # waited
    /\ UNCHANGED <<scenario, fields, micObjs, asrVars, pc, ret, ctlVars, playerVars,
                   resVars>>

\* recvfrom is entered with its whole timeout ahead of it.
RecvStartsFresh ==
    \A t \in 1..Len(threads) :
        (threads[t].pc # "recv" /\ threads'[t].pc = "recv") => waited.recv[t] = 0

\* join(timeout=5.0) returns at once for a worker that has ended and after the
\* five seconds for one that has not.
JoinMayReturn == ~JoinedWorkerRuns \/ waited.join >= JoinTimeout

StopRawTimed(c) ==
    \/ StopRaw_Call(c) \/ StopRaw_Check(c) \/ StopRaw_Set(c)
    \/ StopRaw_Close(c) /\ waited.join = 0
    \/ StopRaw_Join(c) /\ JoinMayReturn
    \/ StopRaw_ResetSocket(c) \/ StopRaw_ResetThread(c) \/ StopRaw_ResetEvent(c)

NextMicTimed ==
    \/ StartRaw(1) \/ StopRawTimed(1)
    \/ Worker /\ RecvStartsFresh
    \/ Tick \/ Rearm

SpecMicTimed == InitMic /\ [][NextMicTimed]_vars

\* The application starts and stops the mic listener, and the handler it passed
\* may call StopRawMicListener itself.
HandlerStops ==
    \E t \in 1..MaxThreads :
        \/ HStop_Call(t) \/ HStop_Check(t) \/ HStop_Set(t) \/ HStop_Close(t)
        \/ HStop_Join(t) \/ HStop_ResetSocket(t) \/ HStop_ResetThread(t)
        \/ HStop_ResetEvent(t)

NextReentrant == StartRaw(1) \/ StopRaw(1) \/ Worker \/ HandlerStops

SpecReentrant == InitMic /\ [][NextReentrant]_vars

\* ------------------------------------------------------------- claims
Thread(t) == threads[t]

ThreadIds == 1..Len(threads)

\* Caller c takes the step that leaves position p.
Leaves(c, p) == pc[c] = p /\ pc'[c] # p

\* C1: StartRawMicListener called while the thread field is set returns at once
\* without error: it creates no Thread, no Event and changes no field; a Thread
\* object is created only while the thread field is None, and the field names
\* the newest Thread, so a session has exactly one worker.
C1_StartRawIdempotent ==
    /\ [](mic_listener_thread \in {None, Len(threads)})
    /\ [][\A c \in Callers :
            /\ (Leaves(c, "s_check") /\ mic_listener_thread # None)
                 => /\ UNCHANGED <<fields, micObjs, asrVars>>
                    /\ pc'[c] = "idle" /\ ret'[c] = "start_noop"
            /\ Len(threads') > Len(threads) => mic_listener_thread = None]_vars

\* A second Start has returned as a no-op while the session's worker runs.
C1_Witness ==
    /\ scenario = "lifecycle"
    /\ pc[1] = "idle" /\ ret[1] = "start_noop"
    /\ Len(threads) = 1 /\ mic_listener_thread = 1 /\ Thread(1).st = "running"

\* C2: concurrent Start calls never produce two live sessions: at most one
\* worker is ever started and at most one subscriber is ever created.
C2_OneSessionFromConcurrentStarts ==
    /\ Cardinality({t \in ThreadIds : Thread(t).st # "new"}) <= 1
    /\ Len(subs) <= 1

\* C3: StopRawMicListener on a started listener returns with the socket, thread
\* and stop-event fields all None.
C3_StopReturnsCleared ==
    [][\A c \in Callers :
         (Leaves(c, "p_reset_event") /\ pc'[c] = "idle")
           => /\ mic_socket' = None
              /\ mic_listener_thread' = None
              /\ mic_listener_stop_event' = None]_vars

\* The worker of the session the thread field names has ended by itself: with a
\* setup error, an unexpected socket error or an unexpected exception.
WorkerEndedByItself ==
    /\ mic_listener_thread # None
    /\ Thread(mic_listener_thread).st = "done"
    /\ Thread(mic_listener_thread).exit \in {"setup", "sockerr", "unexpected"}

\* C4: after the worker has ended by itself, a StartRawMicListener call (with no
\* Stop in between) goes on to spawn a new worker.
C4_StartAfterWorkerExit ==
    [][\A c \in Callers :
         (Leaves(c, "s_check") /\ WorkerEndedByItself) => pc'[c] = "s_event"]_vars

\* C5: once Stop has returned and every worker has exited, every socket a
\* worker created is closed.
C5_SocketsClosedAfterStop ==
    \A c \in Callers :
      ( /\ pc[c] = "idle" /\ ret[c] = "stopped"
        /\ mic_listener_thread = None
        /\ \A t \in ThreadIds : Thread(t).st = "done" )
        => \A s \in 1..Len(sockets) : sockets[s] = "closed"

\* The i-th datagram worker t received has been given to the handler, or is
\* the one the worker is about to give to it.
Delivered(t, i) ==
    \/ \E k \in 1..Len(Thread(t).hx) : Thread(t).hx[k].at = i
    \/ i = Len(Thread(t).rx) /\ Thread(t).pc = "handler"

\* The datagrams worker t received after a handler call that raised.
AfterFailure(t) ==
    {i \in 1..Len(Thread(t).rx) :
       \E j \in 1..Len(Thread(t).hx) : Thread(t).hx[j].raised /\ Thread(t).hx[j].at < i}

\* The step on which handler(data) ends leaves the worker running, at the loop test.
HandlerKeepsLoop ==
    \A t \in ThreadIds :
      (Thread(t).pc = "handler" /\ threads'[t].pc # "handler")
        => threads'[t].pc = "loop" /\ threads'[t].st = "running"

\* C6 as stated: every datagram received after a failing handler call is
\* delivered to the handler.
C6_EveryDatagramDelivered ==
    \A t \in ThreadIds : \A i \in AfterFailure(t) : Delivered(t, i)

\* C6 amended: a handler exception does not end the receive loop, and every
\* non-empty datagram received after a failing handler call is delivered to
\* the handler, with the payload that was received.
C6_NonEmptyDatagramDelivered ==
    /\ [](\A t \in ThreadIds : \A i \in AfterFailure(t) :
            Len(Thread(t).rx[i]) > 0 => Delivered(t, i))
    /\ [](\A t \in ThreadIds : \A k \in 1..Len(Thread(t).hx) :
            Thread(t).hx[k].data = Thread(t).rx[Thread(t).hx[k].at])
    /\ [][HandlerKeepsLoop]_vars

\* A handler call raised, and the datagram received after it was delivered too.
C6_Witness ==
    \E t \in ThreadIds :
      /\ Len(Thread(t).hx) = 2
      /\ Thread(t).hx[1].raised
      /\ Thread(t).hx[2].at > Thread(t).hx[1].at
      /\ Thread(t).st = "running"

\* Subscribers that were created and not closed.
LiveSubs == {s \in 1..Len(subs) : subs[s].st # "closed"}

\* C7: there is never more than one live subscription, and StartAsrListener
\* called while a subscriber is stored returns at once without error: it creates
\* no subscriber and registers no handler.
C7_StartAsrIdempotent ==
    /\ [](Cardinality(LiveSubs) <= 1)
    /\ [][\A c \in Callers :
            (Leaves(c, "a_check") /\ asr_subscriber # None)
              => /\ UNCHANGED <<fields, micObjs, asrVars>>
                 /\ pc'[c] = "idle" /\ ret'[c] = "start_noop"]_vars

\* A second StartAsrListener has returned as a no-op on an active subscription.
C7_Witness ==
    /\ scenario = "asr"
    /\ pc[1] = "idle" /\ ret[1] = "start_noop"
    /\ asr_subscriber # None /\ subs[asr_subscriber].st = "inited"

\* C8: a Stop on a component that is not active returns at once: it raises
\* nothing, closes nothing, waits on nothing and changes no field; and after a
\* Stop has returned the component is not active, so Stop; Stop is Stop.
C8_StopInactiveNoop ==
    /\ [](\A c \in Callers :
            (pc[c] \in {"idle", "p_check", "q_check"} /\ ret[c] \in {"stopped", "stop_noop"})
              => mic_listener_thread = None /\ asr_subscriber = None)
    /\ [][\A c \in Callers :
            /\ (Leaves(c, "p_check") /\ mic_listener_thread = None)
                 => /\ UNCHANGED <<fields, micObjs, asrVars>>
                    /\ pc'[c] = "idle" /\ ret'[c] = "stop_noop"
            /\ (Leaves(c, "q_check") /\ asr_subscriber = None)
                 => /\ UNCHANGED <<fields, micObjs, asrVars>>
                    /\ pc'[c] = "idle" /\ ret'[c] = "stop_noop"]_vars

\* A Stop has returned as a no-op on a listener that had been started and stopped.
C8_Witness ==
    /\ scenario = "lifecycle"
    /\ pc[1] = "idle" /\ ret[1] = "stop_noop"
    /\ Len(threads) = 1 /\ Len(sockets) = 1 /\ sockets[1] = "closed"

\* C9: for every sample delivered the handler is called exactly once: with the
\* decoded value when the text decodes, with {"raw": text} when it does not.
C9_HandlerOncePerMessage ==
    asr_last.sub # None =>
      /\ Len(asr_last.calls) = 1
      /\ JsonLoads(asr_last.text).ok => asr_last.calls[1] = JsonLoads(asr_last.text).val
      /\ ~JsonLoads(asr_last.text).ok =>
           /\ asr_last.calls[1].py = "dict"
           /\ asr_last.calls[1].items = {<<"raw", asr_last.text>>}

\* A sample whose text is not JSON was delivered, and the handler got the fallback.
C9_Witness ==
    /\ asr_last.sub # None
    /\ asr_last.text = <<"{", "1">>
    /\ asr_last.calls = <<[py |-> "dict", items |-> {<<"raw", <<"{", "1">>>>}]>>

\* C10: an exception the handler raises during delivery does not leave the
\* decode-and-dispatch callback.
C10_HandlerErrorCaught == ~asr_last.escaped

\* The transport calls made so far, and the last one.
Calls == 1..Len(rpc)

\* The api id each control operation names in its transport call.
ApiOf(op) ==
    CASE op = "TtsMaker" -> ROBOT_API_ID_AUDIO_TTS
      [] op = "GetVolume" -> ROBOT_API_ID_AUDIO_GET_VOLUME
      [] op = "SetVolume" -> ROBOT_API_ID_AUDIO_SET_VOLUME
      [] op = "PlayStream" -> ROBOT_API_ID_AUDIO_START_PLAY
      [] op = "PlayStop" -> ROBOT_API_ID_AUDIO_STOP_PLAY
      [] op = "LedControl" -> ROBOT_API_ID_AUDIO_SET_RGB_LED

\* C19: each control operation (TtsMaker, GetVolume, SetVolume, LedControl,
\* PlayStream, PlayStop) makes exactly one transport call, with its own api id,
\* and returns that call's status code unchanged, raising nothing and calling
\* once whatever the status; only GetVolume returns a payload beside the code,
\* and it does so exactly when the status is 0 and the answer carried data: the
\* payload is then the decoded data, and it is absent in every other case.
C19_OneCallStatusReturned ==
    [][rpc' # rpc =>
         LET n == Len(rpc')
             call == rpc'[n]
             back == call_ret'
         IN  /\ n = Len(rpc) + 1 /\ SubSeq(rpc', 1, n - 1) = rpc
             /\ call.api = ApiOf(back.op)
             /\ ~back.raised /\ back.code = call.code
             /\ back.payload.present
                  <=> (back.op = "GetVolume" /\ call.code = 0 /\ call.data.present)
             /\ back.payload.present
                  => back.payload.val = JsonLoads(call.data.text).val]_vars

\* GetVolume has returned a nonzero status with no payload although the answer
\* carried data, after an earlier operation had failed too.
C19_Witness ==
    /\ scenario = "control" /\ Len(rpc) = 2
    /\ rpc[1].code # 0 /\ rpc[2].code # 0 /\ rpc[2].code # rpc[1].code
    /\ call_ret.op = "GetVolume" /\ call_ret.code = rpc[2].code
    /\ rpc[2].data.present /\ ~call_ret.payload.present

\* C20: on a freshly constructed client the stored TTS index is 0 after any
\* number of TtsMaker calls, and every TTS request carries index 0.
C20_TtsIndexStaysZero ==
    /\ tts_index = 0
    /\ \A i \in Calls : rpc[i].api = ROBOT_API_ID_AUDIO_TTS => rpc[i].parameter.index = 0

\* Two TtsMaker calls have been made, one after the other.
C20_Witness ==
    /\ scenario = "control" /\ Len(rpc) = 2
    /\ \A i \in Calls : rpc[i].api = ROBOT_API_ID_AUDIO_TTS
    /\ call_ret.op = "TtsMaker"

\* The PlayStream calls and the PlayStop calls among the transport calls.
StreamCalls == {i \in Calls : rpc[i].api = ROBOT_API_ID_AUDIO_START_PLAY}

StopCalls == {i \in Calls : rpc[i].api = ROBOT_API_ID_AUDIO_STOP_PLAY}

\* Every chunk call so far returned status 0.
AllChunksOk == \A i \in StreamCalls : rpc[i].code = 0

\* main has returned after streaming.
MainDone == main_pc = "done"

\* C11: with chunkBytes = sampleRate*2*chunkDurationMs/1000 > 0, every chunk
\* transmitted has between 1 and chunkBytes bytes, a chunk shorter than
\* chunkBytes is the one that ends the buffer, and a run in which every chunk
\* call returned 0 has transmitted ceil(L/chunkBytes) chunks when it is done
\* (none for L = 0).
C11_ChunksOfConfiguredSize ==
    LET chunkBytes == Ticks(chunk_ms)
    IN  (scenario = "player" /\ chunkBytes > 0) =>
          /\ \A i \in StreamCalls :
                /\ SliceLen(rpc[i].pcm) \in 1..chunkBytes
                /\ SliceLen(rpc[i].pcm) < chunkBytes => rpc[i].pcm.hi = pcm_len
          /\ (MainDone /\ AllChunksOk) =>
                Cardinality(StreamCalls) = (pcm_len + chunkBytes - 1) \div chunkBytes

\* C12: the chunks of a run are transmitted in split order, one at a time:
\* each PlayStream call is made after the one before has returned, carries the
\* run's stream id, and holds the bytes that follow those of the call before,
\* the first starting at byte 0; so the chunks sent, in order, are a prefix of
\* the buffer with no byte skipped, repeated or out of place, and the whole
\* buffer once main is done and no call failed.
C12_ChunksInSplitOrder ==
    scenario = "player" =>
      /\ \A i \in StreamCalls :
            /\ rpc[i].pcm.lo = (IF i = 1 THEN 0 ELSE rpc[i - 1].pcm.hi)
            /\ rpc[i].pcm.lo < rpc[i].pcm.hi /\ rpc[i].pcm.hi <= pcm_len
            /\ rpc[i].parameter.stream_id = stream_id
            /\ rpc[i].at <= rpc[i].back
            /\ i > 1 => (i - 1 \in StreamCalls /\ rpc[i - 1].back <= rpc[i].at)
      /\ (MainDone /\ AllChunksOk) =>
            (IF StreamCalls = {} THEN pcm_len = 0
             ELSE rpc[Cardinality(StreamCalls)].pcm.hi = pcm_len)

\* Three chunks were sent, the calls took time, none failed and main is done.
C12_Witness ==
    /\ scenario = "player" /\ MainDone /\ AllChunksOk
    /\ Cardinality(StreamCalls) = 3 /\ num_chunks = 3
    /\ rpc[1].back > rpc[1].at /\ rpc[3].pcm.hi - rpc[3].pcm.lo < chunk_bytes

\* C13: a chunk call that returned a nonzero status is the last chunk call of
\* the run: with the failing chunk the k-th of the split, exactly k chunks were
\* sent, none after it and the failing one only once.
C13_AbortOnFirstFailure ==
    scenario = "player" =>
      \A i \in StreamCalls :
          rpc[i].code # 0 =>
            /\ \A j \in StreamCalls : j <= i
            /\ Cardinality(StreamCalls) = i
            /\ rpc[i].pcm.lo = (i - 1) * chunk_bytes
            /\ main_pc \in {"stop", "done"}

\* The second of three chunks failed and main is done.
C13_Witness ==
    /\ scenario = "player" /\ MainDone /\ num_chunks = 3
    /\ Cardinality(StreamCalls) = 2 /\ rpc[1].code = 0 /\ rpc[2].code # 0

\* C14: a run with chunk_ms > 0 calls PlayStop exactly once, as its last
\* transport call: no PlayStop is made while chunks are still to be sent, the
\* loop is left only towards PlayStop (buffer used up, empty buffer, or a chunk
\* call that failed), main is done only after it, and it carries the
\* application name of the chunks.
C14_StopOnceAtEnd ==
    /\ [](scenario = "player" =>
            /\ chunk_ms > 0 => main_pc # "exited"
            /\ Cardinality(StopCalls) = (IF MainDone THEN 1 ELSE 0)
            /\ \A i \in StopCalls :
                  /\ i = Len(rpc)
                  /\ i > 1 => rpc[i - 1].back <= rpc[i].at
                  /\ \A j \in StreamCalls :
                        rpc[j].parameter.app_name = rpc[i].parameter.app_name)
    /\ [][(main_pc \in {"loop", "send", "pace"}
             /\ main_pc' \notin {"loop", "send", "pace"}) => main_pc' = "stop"]_vars

\* PlayStop was called after the first of two chunks failed.
C14_Witness ==
    /\ scenario = "player" /\ MainDone /\ num_chunks = 2
    /\ Cardinality(StreamCalls) = 1 /\ rpc[1].code # 0
    /\ Cardinality(StopCalls) = 1

\* The first nonzero status a chunk call returned, 0 if there is none.
FirstFailure ==
    IF AllChunksOk THEN 0
    ELSE rpc[CHOOSE i \in StreamCalls :
                 rpc[i].code # 0 /\ \A j \in StreamCalls : j < i => rpc[j].code = 0].code

\* C15: the status main hands to its caller when it is done is 0 only if
\* every chunk call returned 0, and otherwise the first nonzero status a chunk
\* call returned.
C15_ResultIsFirstFailure ==
    (scenario = "player" /\ MainDone) => exit_status = FirstFailure

\* The deadline of chunk i (the i-th after the first) with the configured chunk
\* duration: T + i*C.
Deadline(i) == start_wall + i * Ticks(chunk_ms)

\* C16: chunk i (i >= 1, the PlayStream call number i+1) is never transmitted
\* before T + i*C, and when the call for chunk i-1 had returned by then, it is
\* transmitted at T + i*C, as soon as the sleep that ends there is over.
C16_DeadlinePacing ==
    scenario = "player" =>
      \A n \in StreamCalls :
          n > 1 =>
            /\ rpc[n].at >= Deadline(n - 1)
            /\ rpc[n - 1].back <= Deadline(n - 1)
                 => rpc[n].at <= Deadline(n - 1) + MaxOversleep

\* The time by which the stop call may miss the audio's duration: 5% of it or
\* 50 ms, whichever is larger.
Tolerance == IF pcm_len \div 20 >= Ticks(50) THEN pcm_len \div 20 ELSE Ticks(50)

\* C17: when no chunk call failed, the stop call is not issued before the
\* full audio duration D has elapsed since the start, within the tolerance;
\* for the 3.2 s buffer in 1000 ms chunks that is about 3.2 s after the start.
C17_StopAfterFullDuration ==
    (scenario = "player" /\ MainDone /\ AllChunksOk) =>
      \A i \in StopCalls : rpc[i].at >= start_wall + pcm_len - Tolerance

\* Whether strategy n, were it run on this host, yields an address on the
\* target subnet.
Succeeds(n) ==
    CASE n = 1 -> /\ ~net.addrinfo.raises
                  /\ \E i \in 1..Len(net.addrinfo.ips) :
                        StartsWith(net.addrinfo.ips[i], target_subnet)
      [] n = 2 -> /\ ~net.hostbyname.raises
                  /\ \E i \in 1..Len(net.hostbyname.ips) :
                        StartsWith(net.hostbyname.ips[i], target_subnet)
      [] n = 3 -> ~net.gateway.raises /\ StartsWith(net.gateway.ip, target_subnet)
      [] n = 4 -> ~net.external.raises /\ StartsWith(net.external.ip, target_subnet)

\* C18: the strategies are tried in the order 1, 2, 3, 4, each at most once,
\* and a strategy is tried only when every one before it failed (raised or
\* found no address on the subnet); the function returns as soon as one
\* succeeds, with an address that begins with the target subnet prefix, and
\* returns None exactly when all four were tried and failed; the sockets
\* strategies 3 and 4 made are closed.
C18_StrategiesInOrder ==
    scenario = "resolver" =>
      /\ Len(attempts) <= 4
      /\ \A i \in 1..Len(attempts) :
            attempts[i] = i /\ \A j \in 1..(i - 1) : ~Succeeds(j)
      /\ \A i \in 1..Len(probes) : probes[i] = "closed"
      /\ resolved.returned <=> res_pc = "done"
      /\ resolved.returned =>
            /\ Len(attempts) >= 1
            /\ resolved.ip = <<>> <=> \A j \in 1..4 : ~Succeeds(j)
            /\ resolved.ip = <<>> => Len(attempts) = 4
            /\ resolved.ip # <<>> =>
                  /\ StartsWith(resolved.ip, target_subnet)
                  /\ Succeeds(Len(attempts))
      /\ ~resolved.returned => \A j \in 1..Len(attempts) : ~Succeeds(j)

\* Strategy 1 raised, strategy 2 listed only addresses off the subnet, and
\* strategy 3 returned the address its probe found: strategy 4 was not tried.
C18_Witness ==
    /\ scenario = "resolver" /\ resolved.returned /\ resolved.ip # <<>>
    /\ net.addrinfo.raises /\ Len(net.hostbyname.ips) = 2
    /\ attempts = <<1, 2, 3>> /\ probes = <<"closed">>
    /\ Succeeds(4)

\* ------------------------------------------------- lingering workers
\* Worker t is in the receive loop with a socket that can still deliver: it
\* waits in recvfrom on an open socket, or runs the handler on a datagram of it.
InReceiveLoop(t) ==
    /\ Running(t) /\ Thread(t).pc \in {"recv", "handler"}
    /\ sockets[Thread(t).sock] = "open"

\* C21: at most one live listener session: after any sequence of Start and Stop
\* calls of one application thread, a Stop whose join timed out and a new Start
\* included, at most one worker is in the receive loop able to deliver
\* datagrams to a handler.
C21_OneWorkerReceiving ==
    scenario = "lifecycle" =>
      Cardinality({t \in ThreadIds : InReceiveLoop(t)}) <= 1

\* Worker t was started and the thread field no longer names it: the Stop of its
\* session gave up waiting for it (join timed out) and reset the fields, or a
\* later Start has already stored the next thread.
LingersAfterStop(t) ==
    t \in ThreadIds /\ Thread(t).st = "running" /\ mic_listener_thread # t

\* Worker t has returned from _mic_listener_loop.
Terminated(t) == t \in ThreadIds /\ Thread(t).st = "done"

\* C22: a worker still running when StopRawMicListener has returned exits on its
\* own in every continuation, one with a later Start and no further Stop included.
C22_LingeringWorkerExits ==
    \A t \in 1..MaxThreads : LingersAfterStop(t) ~> Terminated(t)

\* ------------------------------------------------- the worker and time
\* A worker past the loop test: in recvfrom, in the handler, or in the OSError
\* handler.
PastLoopTest(t) == Running(t) /\ Thread(t).pc \in {"recv", "handler", "sockerr"}

\* Worker t's step enters recvfrom.
EntersRecv(t) == Thread(t).pc # "recv" /\ threads'[t].pc = "recv"

\* C23: no receive lasts longer than the poll interval, and every receive is
\* entered from a loop test that found the stop signal unset; so from the moment
\* Stop waits in join, a worker that is past the loop test has left the loop
\* before a second poll interval begins, and a join that gives up on a running
\* worker gives up on one that had not reached the loop.
C23_WorkerLeavesWithinPoll ==
    /\ [](\A t \in ThreadIds :
            /\ Running(t) /\ Thread(t).pc = "recv" => waited.recv[t] <= PollInterval
            /\ pc[1] = "p_join" /\ PastLoopTest(t) => waited.join <= PollInterval)
    /\ [][/\ \A t \in ThreadIds :
               EntersRecv(t) =>
                 /\ Thread(t).pc = "loop"
                 /\ mic_listener_stop_event # None
                 /\ ~events[mic_listener_stop_event]
          /\ Leaves(1, "p_join") /\ JoinedWorkerRuns
               => ~PastLoopTest(mic_listener_thread)]_vars

\* Stop has waited one poll interval in join and its worker, which was in
\* recvfrom when the signal was set, has left the loop by the loop test.
C23_Witness ==
    /\ pc[1] = "p_join" /\ waited.join = PollInterval
    /\ mic_listener_thread # None
    /\ Thread(mic_listener_thread).exit = "stopped"

\* ------------------------------------------------- order of delivery
\* The payloads worker t has passed to the handler, in the order of the calls,
\* the call in progress included.
HandedOver(t) ==
    [k \in 1..Len(Thread(t).hx) |-> Thread(t).hx[k].data]
      \o (IF Thread(t).pc = "handler"
            THEN <<Thread(t).rx[Len(Thread(t).rx)]>> ELSE <<>>)

\* "if data:" is true of this datagram.
Truthy(data) == Len(data) > 0

\* C24 as stated: the sequence of payloads passed to the handler equals the
\* sequence of datagrams received, none skipped, duplicated or reordered.
C24_HandlerSeesEveryDatagram ==
    Traced => \A t \in ThreadIds : HandedOver(t) = Thread(t).rx

\* C24 amended: the sequence of payloads passed to the handler equals the
\* sequence of non-empty datagrams received, in the order received; the calls
\* are made one after another by the worker, each for a later datagram than the
\* call before.
C24_HandlerSeesNonEmptyInOrder ==
    Traced =>
      \A t \in ThreadIds :
        /\ HandedOver(t) = SelectSeq(Thread(t).rx, Truthy)
        /\ \A k \in 1..Len(Thread(t).hx) : \A l \in 1..Len(Thread(t).hx) :
              k < l => Thread(t).hx[k].at < Thread(t).hx[l].at

\* A worker has received a sample and then a zero-length datagram: the handler
\* was called for the first, and the worker is back at the loop test.
C24_Witness ==
    \E t \in ThreadIds :
      /\ Len(Thread(t).rx) = 2 /\ Truthy(Thread(t).rx[1]) /\ ~Truthy(Thread(t).rx[2])
      /\ Len(Thread(t).hx) = 1 /\ Thread(t).pc = "loop"

\* ------------------------------------------------- shutdown errors
\* Worker t is in its OSError handler and its socket is closed: only
\* StopRawMicListener closes a socket, and it sets the stop signal first.
SeesStopError(t) ==
    /\ Running(t) /\ Thread(t).pc = "sockerr"
    /\ Thread(t).sock # None /\ sockets[Thread(t).sock] = "closed"

\* C25: a worker that sees a socket error because StopRawMicListener closed its
\* socket exits silently, in every interleaving: it reports neither a socket
\* error nor an unexpected exception.
C25_StopErrorIsSilent ==
    [][\A t \in ThreadIds :
          (SeesStopError(t) /\ threads'[t].st = "done")
            => threads'[t].exit = "silent"]_vars

\* ------------------------------------------------- Stop from the handler
\* Worker t is inside a StopRawMicListener call its handler made.
InHandlerStop(t) ==
    Thread(t).pc \in {"h_check", "h_set", "h_close", "h_join", "h_reset_socket",
                      "h_reset_thread", "h_reset_event"}

\* The step on which that call ends: it returns or an exception leaves it.
HandlerStopEnds(t) == InHandlerStop(t) /\ ~InHandlerStop(t)'

\* C26: StopRawMicListener called from inside the user handler of the running
\* session, on the worker thread the thread field names, returns with the three
\* lifecycle fields cleared, so that a later StartRawMicListener spawns a worker.
C26_StopFromHandlerClears ==
    [][\A t \in ThreadIds :
          (HandlerStopEnds(t) /\ mic_listener_thread = t)
            => /\ mic_socket' = None
               /\ mic_listener_thread' = None
               /\ mic_listener_stop_event' = None]_vars

\* ------------------------------------------------- behind schedule
\* main takes the pacing step for chunk idx (lines 124-128).
Paces == main_pc = "pace" /\ main_pc' = "loop"

\* C27: when the call for a chunk returns at or after that chunk's deadline the
\* player does not sleep and sends the next chunk at once; the deadlines stay
\* anchored to the start time; the player sleeps only while it is ahead of the
\* schedule, it asks for no more than the time that remains to the deadline, and
\* wakes at most MaxOversleep after the time it asked for.
C27_CatchUpWithoutSleep ==
    /\ [][/\ main_pc \notin {"prepare", "begin"} => start_wall' = start_wall
          /\ Paces =>
               /\ clock >= Deadline(idx + 1) => clock' = clock
               /\ clock' >= clock
               /\ clock' > clock =>
                    /\ SleepTime(idx) <= Deadline(idx + 1) - clock
                    /\ clock' <= clock + SleepTime(idx) + MaxOversleep]_vars
    /\ [](scenario = "player" =>
            \A n \in StreamCalls :
                (n > 1 /\ rpc[n - 1].back >= Deadline(n - 1))
                  => rpc[n].at = rpc[n - 1].back)

\* With chunks of 1 ms: the first call returned after its deadline, the second
\* chunk was sent at once and its call returned before the second deadline, and
\* the third chunk was sent at the second deadline of the original schedule, not
\* one chunk duration after the second was sent.
C27_Witness ==
    /\ scenario = "player" /\ Len(rpc) >= 3 /\ 3 \in StreamCalls
    /\ rpc[1].back > Deadline(1)
    /\ rpc[2].at = rpc[1].back
    /\ rpc[2].back < Deadline(2)
    /\ rpc[3].at = Deadline(2)
    /\ rpc[3].at < rpc[2].at + Ticks(chunk_ms)

\* ------------------------------------------------- one stream, one name
\* C28: the stream identifier is made once, before the first chunk, from the
\* time main starts streaming, and does not change afterwards; every chunk
\* transmission carries it and the application name "longplay", and the stop
\* call carries the same application name.
C28_OneStreamIdOneAppName ==
    /\ [](scenario = "player" =>
            /\ main_pc \in {"prepare", "begin"} => rpc = <<>>
            /\ main_pc \notin {"prepare", "begin", "exited"}
                 => stream_id = StartTs(start_wall)
            /\ \A n \in StreamCalls :
                  /\ rpc[n].parameter.stream_id = stream_id
                  /\ rpc[n].parameter.app_name = "longplay"
            /\ \A n \in StopCalls : \A m \in StreamCalls :
                  rpc[n].parameter.app_name = rpc[m].parameter.app_name
            /\ \A n \in StopCalls : rpc[n].parameter.app_name = "longplay")
    /\ [][main_pc \notin {"prepare", "begin"} => stream_id' = stream_id]_vars

\* main started late, sent two chunks under the identifier of that time, and
\* has sent the stop call.
C28_Witness ==
    /\ scenario = "player" /\ MainDone
    /\ start_wall = MaxStartTime /\ stream_id = StartTs(MaxStartTime)
    /\ Cardinality(StreamCalls) = 2 /\ Cardinality(StopCalls) = 1
    /\ \A n \in StreamCalls : rpc[n].parameter.stream_id = StartTs(MaxStartTime)

\* ------------------------------------------------- ASR payloads
\* C29: every payload the ASR handler receives is a mapping: the decoded object
\* of the message, or {"raw": text} whenever the text does not decode to an
\* object, a text that is valid JSON of another kind included.
C29_PayloadIsMapping ==
    asr_last.sub # None =>
      \A i \in 1..Len(asr_last.calls) : asr_last.calls[i].py = "dict"

====
